---- MODULE Spec2Model ----
(***************************************************************************)
(* A model of lsst.ts.observatory.model.Target (target.py).                *)
(*                                                                         *)
(* Python objects are modelled with their identity: a Target is an id     *)
(* into obj, whose value is the instance's __dict__ (an insertion-ordered  *)
(* sequence of key/value items); a Python list is a ref into heap.  Python *)
(* values are tagged records (None, numbers, strings, list references).    *)
(* Floats are fixed-point numbers in thousandths, so that the radian to    *)
(* degree conversions round, as they do in floating point.                 *)
(***************************************************************************)
EXTENDS Integers, Sequences, FiniteSets, TLC

VARIABLES
    obj,      \* Target instances: id -> __dict__ of the instance
    heap,     \* list objects: ref -> the sequence of numbers it holds
    topic,    \* the scheduler's target topic record handed to from_topic
    written,  \* per Target, the value last assigned to its exp_time property
    last,     \* the most recent call: [op, self, arg, ret]
    calls     \* number of calls the run may still make

vars == <<obj, heap, topic, written, last, calls>>

----------------------------------------------------------------------------
(* Bounds of the model. *)

MaxCalls == 2
MaxJsonCalls == 1

----------------------------------------------------------------------------
(* Python values. *)

None == [type |-> "NoneType"]
Num(n) == [type |-> "num", num |-> n]
Str(s) == [type |-> "str", str |-> s]
ListRef(r) == [type |-> "list", ref |-> r]

IsList(v) == v.type = "list"

(* math.radians and math.degrees on fixed-point thousandths, pi ~ 355/113. *)
Radians(x) == (x * 355) \div (113 * 180)
Degrees(x) == (x * 113 * 180) \div 355

RECURSIVE sum(_)
sum(s) == IF s = <<>> THEN 0 ELSE Head(s) + sum(Tail(s))

----------------------------------------------------------------------------
(* The instance __dict__: vars(self). *)

Item(k, v) == [key |-> k, val |-> v]
Keys(d) == {d[i].key : i \in 1..Len(d)}
Has(d, k) == \E i \in 1..Len(d) : d[i].key = k
Get(d, k) == d[CHOOSE i \in 1..Len(d) : d[i].key = k].val
Put(d, k, v) ==
    IF Has(d, k)
    THEN [i \in 1..Len(d) |-> IF d[i].key = k THEN Item(k, v) ELSE d[i]]
    ELSE Append(d, Item(k, v))

(* The list objects. Ref 0 is the constructor's default argument []. *)
DefaultList == 0
FreshRef(h) == CHOOSE r \in 1..(Cardinality(DOMAIN h) + 1) : r \notin DOMAIN h
Alloc(h, r, elems) == [x \in DOMAIN h \cup {r} |-> IF x = r THEN elems ELSE h[x]]

(* A slip: the sequence is stored as given, self.exp_times = exp_times. *)
list_alias(h, src) == [heap |-> h, ref |-> src]

(* list(x): a new list object holding the elements of x. *)
list(h, src) ==
    LET r == FreshRef(h) IN [heap |-> Alloc(h, r, h[src]), ref |-> r]

(* The references a state holds: the default argument, the caller's own    *)
(* list, the topic's exposureTimes and every list a Target's attribute     *)
(* refers to.  Lists no longer referenced are freed.                       *)
CallerList == 1
TopicList == 2

refs(o) ==
    {DefaultList, CallerList, TopicList}
        \cup UNION {{o[t][i].val.ref :
                        i \in {j \in 1..Len(o[t]) : IsList(o[t][j].val)}} :
                    t \in DOMAIN o}

collect(h, o) == [r \in (DOMAIN h) \cap refs(o) |-> h[r]]

----------------------------------------------------------------------------
(* Target.__init__ *)

Target_init(h, targetid, fieldid, band_filter, ra_rad, dec_rad, ang_rad, num_exp, exp_times) ==
    LET l == list(h, exp_times.ref) IN
    [heap |-> l.heap,
     self |-> << Item("targetid", targetid),
                 Item("fieldid", fieldid),
                 Item("filter", band_filter),
                 Item("ra_rad", ra_rad),
                 Item("dec_rad", dec_rad),
                 Item("ang_rad", ang_rad),
                 Item("num_exp", num_exp),
                 Item("exp_times", ListRef(l.ref)),
                 Item("_exp_time", None),
                 Item("time", Num(0)),
                 Item("airmass", Num(0)),
                 Item("sky_brightness", Num(0)),
                 Item("cloud", Num(0)),
                 Item("seeing", Num(0)),
                 Item("alt_rad", Num(0)),
                 Item("az_rad", Num(0)),
                 Item("rot_rad", Num(0)),
                 Item("telalt_rad", Num(0)),
                 Item("telaz_rad", Num(0)),
                 Item("telrot_rad", Num(0)),
                 Item("slewtime", Num(0)),
                 Item("note", Str("")) >>]

(* Target(): every parameter at its default. *)
Target_default(h) ==
    Target_init(h, Num(0), Num(0), Str(""), Num(0), Num(0), Num(0), Num(0),
                ListRef(DefaultList))

----------------------------------------------------------------------------
(* The degree views: the radian attribute behind each property. *)

DegreeViews ==
    {"alt", "ang", "az", "dec", "ra", "rot", "telalt", "telaz", "telrot"}

(* A slip: the telaz property reads and writes telalt_rad. *)
RadField_swapped(q) ==
    CASE q = "alt" -> "alt_rad"
      [] q = "ang" -> "ang_rad"
      [] q = "az" -> "az_rad"
      [] q = "dec" -> "dec_rad"
      [] q = "ra" -> "ra_rad"
      [] q = "rot" -> "rot_rad"
      [] q = "telalt" -> "telalt_rad"
      [] q = "telaz" -> "telalt_rad"
      [] q = "telrot" -> "telrot_rad"

RadField(q) ==
    CASE q = "alt" -> "alt_rad"
      [] q = "ang" -> "ang_rad"
      [] q = "az" -> "az_rad"
      [] q = "dec" -> "dec_rad"
      [] q = "ra" -> "ra_rad"
      [] q = "rot" -> "rot_rad"
      [] q = "telalt" -> "telalt_rad"
      [] q = "telaz" -> "telaz_rad"
      [] q = "telrot" -> "telrot_rad"

(* The property getter of view q: math.degrees(self.<q>_rad). *)
degrees_get(self, q) == Num(Degrees(Get(self, RadField(q)).num))

(* The property setter of view q: self.<q>_rad = math.radians(x). *)
degrees_set(self, q, x) == Put(self, RadField(q), Num(Radians(x.num)))

(* A slip: "if not self._exp_time", which takes an override of 0 for unset. *)
exp_time_falsy(h, self) ==
    IF Get(self, "_exp_time") \in {None, Num(0)}
    THEN Num(sum(h[Get(self, "exp_times").ref]))
    ELSE Get(self, "_exp_time")

(* The exp_time property. *)
exp_time(h, self) ==
    IF Get(self, "_exp_time") = None
    THEN Num(sum(h[Get(self, "exp_times").ref]))
    ELSE Get(self, "_exp_time")

exp_time_set(self, v) == Put(self, "_exp_time", v)

(* setattr(self, k, v): a property of the class takes the assignment,      *)
(* any other name is stored in the instance __dict__.                      *)
setattr(self, k, v) ==
    IF k \in DegreeViews THEN degrees_set(self, k, v)
    ELSE IF k = "exp_time" THEN exp_time_set(self, v)
    ELSE Put(self, k, v)

----------------------------------------------------------------------------
(* copy_driver_state and get_copy *)

(* A slip: slewtime is transferred with the angles. *)
copy_driver_state_slew(self, target) ==
    LET s1 == Put(self, "alt_rad", Get(target, "alt_rad"))
        s2 == Put(s1, "az_rad", Get(target, "az_rad"))
        s3 == Put(s2, "rot_rad", Get(target, "rot_rad"))
        s4 == Put(s3, "telalt_rad", Get(target, "telalt_rad"))
        s5 == Put(s4, "telaz_rad", Get(target, "telaz_rad"))
        s6 == Put(s5, "telrot_rad", Get(target, "telrot_rad"))
        s7 == Put(s6, "slewtime", Get(target, "slewtime"))
    IN  Put(s7, "ang_rad", Get(target, "ang_rad"))

copy_driver_state(self, target) ==
    LET s1 == Put(self, "alt_rad", Get(target, "alt_rad"))
        s2 == Put(s1, "az_rad", Get(target, "az_rad"))
        s3 == Put(s2, "rot_rad", Get(target, "rot_rad"))
        s4 == Put(s3, "telalt_rad", Get(target, "telalt_rad"))
        s5 == Put(s4, "telaz_rad", Get(target, "telaz_rad"))
        s6 == Put(s5, "telrot_rad", Get(target, "telrot_rad"))
    IN  Put(s6, "ang_rad", Get(target, "ang_rad"))

CopiedFields ==
    << "targetid", "fieldid", "filter", "ra_rad", "dec_rad", "ang_rad",
       "num_exp", "time", "airmass", "sky_brightness", "cloud", "seeing",
       "alt_rad", "az_rad", "rot_rad", "telalt_rad", "telaz_rad",
       "telrot_rad", "slewtime", "note" >>

RECURSIVE copy_fields(_, _, _)
copy_fields(new, self, names) ==
    IF names = <<>> THEN new
    ELSE copy_fields(Put(new, Head(names), Get(self, Head(names))), self,
                     Tail(names))

get_copy(h, self) ==
    LET n == Target_default(h)
        l == list(n.heap, Get(self, "exp_times").ref)
    IN  [heap |-> l.heap,
         ret |-> copy_fields(Put(n.self, "exp_times", ListRef(l.ref)), self,
                             CopiedFields)]

----------------------------------------------------------------------------
(* JSON.  A JSON text is the sequence of the members of one object, in the *)
(* order they are written; a member's value is null, a number, a string or *)
(* an array of numbers.                                                    *)

JNull == [json |-> "null"]
JNumber(n) == [json |-> "number", num |-> n]
JString(s) == [json |-> "string", str |-> s]
JArray(elems) == [json |-> "array", elems |-> elems]

(* json.dumps of one value. *)
dumps_value(h, v) ==
    CASE v.type = "NoneType" -> JNull
      [] v.type = "num" -> JNumber(v.num)
      [] v.type = "str" -> JString(v.str)
      [] v.type = "list" -> JArray(h[v.ref])

(* json.loads of one value: an array becomes a new list object. *)
loads_value(h, j) ==
    CASE j.json = "null" -> [heap |-> h, val |-> None]
      [] j.json = "number" -> [heap |-> h, val |-> Num(j.num)]
      [] j.json = "string" -> [heap |-> h, val |-> Str(j.str)]
      [] j.json = "array" ->
            LET r == FreshRef(h)
            IN  [heap |-> Alloc(h, r, j.elems), val |-> ListRef(r)]

(* A slip: only the public attributes are written. *)
to_json_public(h, self) ==
    LET pub == SelectSeq(self, LAMBDA m : m.key # "_exp_time")
    IN  [i \in 1..Len(pub) |-> Item(pub[i].key, dumps_value(h, pub[i].val))]

(* to_json: json.dumps(vars(self)) *)
to_json(h, self) ==
    [i \in 1..Len(self) |-> Item(self[i].key, dumps_value(h, self[i].val))]

mandatory_fields ==
    << "targetid", "fieldid", "filter", "ra_rad", "dec_rad", "ang_rad",
       "num_exp", "exp_times" >>

KeyError(f) == [type |-> "KeyError", key |-> f]

(* A slip: the last missing field is the one reported. *)
missing_field_last(jsondict) ==
    LET absent == {i \in 1..Len(mandatory_fields) :
                        ~Has(jsondict, mandatory_fields[i])}
    IN  IF absent = {} THEN None
        ELSE KeyError(mandatory_fields[
                CHOOSE i \in absent : \A j \in absent : j <= i])

(* The check of from_json: the KeyError it raises, or None. *)
missing_field(jsondict) ==
    LET absent == {i \in 1..Len(mandatory_fields) :
                        ~Has(jsondict, mandatory_fields[i])}
    IN  IF absent = {} THEN None
        ELSE KeyError(mandatory_fields[
                CHOOSE i \in absent : \A j \in absent : i <= j])

(* for k in jsondict: setattr(self, k, jsondict[k]) *)
(* one turn of the loop: setattr(self, k, jsondict[k]) *)
assign(st, m) ==
    LET l == loads_value(st.heap, m.val)
    IN  [heap |-> l.heap, self |-> setattr(st.self, m.key, l.val)]

(* for k in jsondict: setattr(self, k, jsondict[k]) *)
assign_all(h, self, jsondict) ==
    LET after[i \in 0..Len(jsondict)] ==
            IF i = 0 THEN [heap |-> h, self |-> self]
            ELSE assign(after[i - 1], jsondict[i])
    IN  after[Len(jsondict)]

(* A slip: the members are assigned before the mandatory fields are checked. *)
from_json_eager(h, self, jsonstr) ==
    LET raised == missing_field(jsonstr)
        done == assign_all(h, self, jsonstr)
    IN  [heap |-> done.heap, self |-> done.self, raised |-> raised]

from_json(h, self, jsonstr) ==
    LET raised == missing_field(jsonstr)
        done == assign_all(h, self, jsonstr)
    IN  IF raised # None
        THEN [heap |-> h, self |-> self, raised |-> raised]
        ELSE [heap |-> done.heap, self |-> done.self, raised |-> None]

(* A slip: the topic's degrees are stored as radians. *)
from_topic_degrees(h, tp) ==
    Target_init(h, Num(tp.targetId), Num(0 - 1), Str(tp.filter),
                Num(tp.ra), Num(tp.decl), Num(tp.skyAngle),
                Num(tp.numExposures), tp.exposureTimes)

(* Target.from_topic *)
from_topic(h, tp) ==
    Target_init(h, Num(tp.targetId), Num(0 - 1), Str(tp.filter),
                Num(Radians(tp.ra)), Num(Radians(tp.decl)),
                Num(Radians(tp.skyAngle)), Num(tp.numExposures),
                tp.exposureTimes)

----------------------------------------------------------------------------
(* The inputs the calls are made with. *)

Call(op, self, arg, ret) == [op |-> op, self |-> self, arg |-> arg, ret |-> ret]

Targets == DOMAIN obj

PlainAttrs ==
    { "targetid", "fieldid", "filter", "ra_rad", "dec_rad", "ang_rad",
      "num_exp", "time", "airmass", "sky_brightness", "cloud", "seeing",
      "alt_rad", "az_rad", "rot_rad", "telalt_rad", "telaz_rad",
      "telrot_rad", "slewtime", "note" }

AttrValues(name) ==
    IF name \in {"filter", "note"} THEN {Str("r")} ELSE {Num(1500)}

DegreeValues == {Num(90000), Num(0 - 30000)}
ExpTimeValues == {None, Num(0), Num(40000)}
ListValues == {<<20000>>}

CtorArgs ==
    { [targetid |-> Num(0), fieldid |-> Num(0), band_filter |-> Str(""),
       ra_rad |-> Num(0), dec_rad |-> Num(0), ang_rad |-> Num(0),
       num_exp |-> Num(0), exp_times |-> ListRef(DefaultList)],
      [targetid |-> Num(7), fieldid |-> Num(3), band_filter |-> Str("y"),
       ra_rad |-> Num(785), dec_rad |-> Num(0 - 524), ang_rad |-> Num(1571),
       num_exp |-> Num(1), exp_times |-> ListRef(CallerList)] }

Topics ==
    { [targetId |-> 9, filter |-> "g", ra |-> 45000, decl |-> 0 - 30000,
       skyAngle |-> 90000, numExposures |-> 2,
       exposureTimes |-> ListRef(TopicList)] }

construct(h, a) ==
    Target_init(h, a.targetid, a.fieldid, a.band_filter, a.ra_rad, a.dec_rad,
                a.ang_rad, a.num_exp, a.exp_times)

(* The JSON texts from_json is given on Target t: what to_json wrote for   *)
(* another Target, as written, or lacking some members, or with a member   *)
(* added by its writer, or both.                                           *)
DropSets ==
    {{k} : k \in {mandatory_fields[i] : i \in 1..Len(mandatory_fields)}}
        \cup {{"note"}, {"filter", "num_exp"}, {"ra_rad", "targetid"},
              {"exp_times", "dec_rad", "fieldid"}}

ExtraMembers ==
    { Item("proposalid", JNumber(4)), Item("ra", JNumber(90000)),
      Item("exp_time", JNumber(40000)) }

Edits ==
    {[drop |-> ks, add |-> <<>>] : ks \in DropSets \cup {{}}}
        \cup {[drop |-> ks, add |-> <<m>>] :
                ks \in {{}, {"exp_times"}}, m \in ExtraMembers}

Edited(w, e) == SelectSeq(w, LAMBDA m : m.key \notin e.drop) \o e.add

Texts(h, o, t) ==
    UNION {{Edited(to_json(h, o[s]), e) : e \in Edits} : s \in DOMAIN o \ {t}}

----------------------------------------------------------------------------
(* The initial states: the caller holds a list and a topic, and has        *)
(* constructed one Target (Init) or two (InitPair).                        *)

Heap0 ==
    (DefaultList :> <<>>) @@ (CallerList :> <<30000>>)
        @@ (TopicList :> <<15000, 15000>>)

Init ==
    \E a \in CtorArgs, tp \in Topics :
        LET r == construct(Heap0, a)
        IN  /\ obj = <<r.self>>
            /\ heap = r.heap
            /\ topic = tp
            /\ written = <<None>>
            /\ last = Call("Target", 1, a.exp_times, None)
            /\ calls = MaxCalls

InitPair ==
    \E a, b \in CtorArgs, tp \in Topics :
        LET r1 == construct(Heap0, a)
            r2 == construct(r1.heap, b)
        IN  /\ a.exp_times = ListRef(CallerList)
            /\ b.exp_times = ListRef(DefaultList)
            /\ obj = <<r1.self, r2.self>>
            /\ heap = r2.heap
            /\ topic = tp
            /\ written = <<None, None>>
            /\ last = Call("Target", 2, b.exp_times, None)
            /\ calls = MaxCalls

(* The caller has constructed a Target and assigned its exp_time, and has  *)
(* constructed a Target() to read JSON into.                               *)
InitJson ==
    \E a \in CtorArgs, v \in ExpTimeValues, tp \in Topics :
        LET r1 == construct(Heap0, a)
            r2 == Target_default(r1.heap)
        IN  /\ obj = <<setattr(r1.self, "exp_time", v), r2.self>>
            /\ heap = r2.heap
            /\ topic = tp
            /\ written = <<v, None>>
            /\ last = Call("Target", 2, ListRef(DefaultList), None)
            /\ calls = MaxJsonCalls

----------------------------------------------------------------------------
(* Construction and copies. *)

Construct(a) ==
    /\ calls > 0
    /\ \E r \in {construct(heap, a)} :
           /\ obj' = Append(obj, r.self)
           /\ heap' = collect(r.heap, obj')
           /\ last' = Call("Target", Len(obj) + 1, a.exp_times, None)
    /\ written' = Append(written, None)
    /\ calls' = calls - 1
    /\ UNCHANGED topic

FromTopic ==
    /\ calls > 0
    /\ \E r \in {from_topic(heap, topic)} :
           /\ obj' = Append(obj, r.self)
           /\ heap' = collect(r.heap, obj')
           /\ last' = Call("from_topic", Len(obj) + 1, topic.exposureTimes, None)
    /\ written' = Append(written, None)
    /\ calls' = calls - 1
    /\ UNCHANGED topic

GetCopy(t) ==
    /\ calls > 0
    /\ \E r \in {get_copy(heap, obj[t])} :
           /\ obj' = Append(obj, r.ret)
           /\ heap' = collect(r.heap, obj')
           /\ last' = Call("get_copy", t, None, Len(obj) + 1)
    /\ written' = Append(written, None)
    /\ calls' = calls - 1
    /\ UNCHANGED topic

CopyDriverState(t, s) ==
    /\ calls > 0
    /\ obj' = [obj EXCEPT ![t] = copy_driver_state(obj[t], obj[s])]
    /\ last' = Call("copy_driver_state", t, s, None)
    /\ calls' = calls - 1
    /\ UNCHANGED <<heap, topic, written>>

----------------------------------------------------------------------------
(* Writes by the owner of a Target. *)

(* t.name = v for a plain attribute *)
SetAttr(t, name, v) ==
    /\ calls > 0
    /\ obj' = [obj EXCEPT ![t] = setattr(obj[t], name, v)]
    /\ last' = Call("setattr", t, Item(name, v), None)
    /\ calls' = calls - 1
    /\ UNCHANGED <<heap, topic, written>>

(* t.exp_times = [...], a new list *)
SetExpTimes(t, elems) ==
    /\ calls > 0
    /\ LET r == FreshRef(heap)
       IN  /\ obj' = [obj EXCEPT ![t] = setattr(obj[t], "exp_times", ListRef(r))]
           /\ heap' = collect(Alloc(heap, r, elems), obj')
    /\ last' = Call("set_exp_times", t, JArray(elems), None)
    /\ calls' = calls - 1
    /\ UNCHANGED <<topic, written>>

(* t.q = x for a degree view q *)
SetDegrees(t, q, x) ==
    /\ calls > 0
    /\ obj' = [obj EXCEPT ![t] = setattr(obj[t], q, x)]
    /\ last' = Call("set_degrees", t, Item(q, x), None)
    /\ calls' = calls - 1
    /\ UNCHANGED <<heap, topic, written>>

(* t.exp_time = v *)
SetExpTime(t, v) ==
    /\ calls > 0
    /\ obj' = [obj EXCEPT ![t] = setattr(obj[t], "exp_time", v)]
    /\ written' = [written EXCEPT ![t] = v]
    /\ last' = Call("set_exp_time", t, v, None)
    /\ calls' = calls - 1
    /\ UNCHANGED <<heap, topic>>

(* l.append(x) on a list the caller can reach: its own, the topic's, or   *)
(* the exp_times of a Target                                               *)
Reachable ==
    {CallerList, topic.exposureTimes.ref}
        \cup {Get(obj[t], "exp_times").ref : t \in Targets}

ListAppend(r, x) ==
    /\ calls > 0
    /\ heap' = [heap EXCEPT ![r] = Append(heap[r], x)]
    /\ last' = Call("append", 0, Num(r), None)
    /\ calls' = calls - 1
    /\ UNCHANGED <<obj, topic, written>>

----------------------------------------------------------------------------
(* Reads. *)

ReadDegrees(t, q) ==
    /\ calls > 0
    /\ last' = Call("get_degrees", t, Str(q), degrees_get(obj[t], q))
    /\ calls' = calls - 1
    /\ UNCHANGED <<obj, heap, topic, written>>

ReadExpTime(t) ==
    /\ calls > 0
    /\ last' = Call("get_exp_time", t, None, exp_time(heap, obj[t]))
    /\ calls' = calls - 1
    /\ UNCHANGED <<obj, heap, topic, written>>

----------------------------------------------------------------------------
(* from_json. *)

(* the value the text assigns last to the exposure-time override, through *)
(* the exp_time property or as the stored _exp_time, if it assigns one     *)
WrittenBy(jsonstr, before) ==
    LET at == {i \in 1..Len(jsonstr) : jsonstr[i].key \in {"exp_time", "_exp_time"}}
    IN  IF at = {} THEN before
        ELSE loads_value(<<>>, jsonstr[CHOOSE i \in at : \A j \in at : j <= i].val).val

(* t.from_json(text) *)
FromJson(t, text) ==
    /\ calls > 0
    /\ \E r \in {from_json(heap, obj[t], text)} :
           /\ obj' = [obj EXCEPT ![t] = r.self]
           /\ heap' = collect(r.heap, obj')
           /\ last' = Call("from_json", t, text, r.raised)
           /\ written' = [written EXCEPT ![t] =
                            IF r.raised = None THEN WrittenBy(text, @) ELSE @]
    /\ calls' = calls - 1
    /\ UNCHANGED topic

----------------------------------------------------------------------------
(* The specifications. *)

Write ==
    \E t \in Targets :
        \/ \E name \in PlainAttrs : \E v \in AttrValues(name) : SetAttr(t, name, v)
        \/ \E elems \in ListValues : SetExpTimes(t, elems)
        \/ \E q \in DegreeViews : \E x \in DegreeValues : SetDegrees(t, q, x)
        \/ \E v \in ExpTimeValues : SetExpTime(t, v)

Mutate == \E r \in Reachable : ListAppend(r, 5000)

Read ==
    \E t \in Targets :
        \/ \E q \in DegreeViews : ReadDegrees(t, q)
        \/ ReadExpTime(t)

(* One Target, written and read by its owner. *)
Next == Write \/ Mutate \/ Read

Spec == Init /\ [][Next]_vars

(* Targets made by the constructor, from a topic and by get_copy. *)
NextCopy ==
    \/ Write
    \/ Mutate
    \/ \E a \in CtorArgs : Construct(a)
    \/ FromTopic
    \/ \E t \in Targets : GetCopy(t)

SpecCopy == Init /\ [][NextCopy]_vars

(* Two Targets and the transfer of the driver state between them. *)
NextDriver ==
    \/ Write
    \/ Mutate
    \/ \E t, s \in Targets : CopyDriverState(t, s)

SpecDriver == InitPair /\ [][NextDriver]_vars

(* Targets written to JSON and read back. *)
NextJson ==
    \/ Write
    \/ \E t \in Targets : \E text \in Texts(heap, obj, t) : FromJson(t, text)

SpecJson == InitJson /\ [][NextJson]_vars

----------------------------------------------------------------------------
(* What the claims speak of. *)

(* A Target's fields by value: a list attribute stands for its elements. *)
Value(h, v) == IF IsList(v) THEN [type |-> "list", elems |-> h[v.ref]] ELSE v
Fields(h, d) == [k \in Keys(d) |-> Value(h, Get(d, k))]

ExpTimes(h, d) == h[Get(d, "exp_times").ref]

DriverFields ==
    {"alt_rad", "az_rad", "rot_rad", "telalt_rad", "telaz_rad", "telrot_rad",
     "ang_rad"}

(* Every Target but t is as it was, and so is every list. *)
OthersUnchanged(t) ==
    /\ Len(obj') = Len(obj)
    /\ \A u \in Targets \ {t} : obj'[u] = obj[u]
    /\ heap' = heap
    /\ topic' = topic

(* C1: get_copy returns a Target equal to the original in every field,     *)
(* the exposure-time override included, so the copy reads the same         *)
(* exp_time as the original.                                               *)
C1_CopyEqualsOriginal ==
    last.op = "get_copy" =>
        /\ Fields(heap, obj[last.ret]) = Fields(heap, obj[last.self])
        /\ exp_time(heap, obj[last.ret]) = exp_time(heap, obj[last.self])

(* C2: copy_driver_state makes the seven driver fields of dst equal to     *)
(* those of src and changes no other field of dst and no field of src.     *)
C2_CopyDriverStateFrame ==
    [][last'.op = "copy_driver_state" =>
        LET dst == last'.self
            src == last'.arg
        IN  /\ \A f \in DriverFields : Get(obj'[dst], f) = Get(obj[src], f)
            /\ Keys(obj'[dst]) = Keys(obj[dst])
            /\ \A k \in Keys(obj[dst]) \ DriverFields :
                    Get(obj'[dst], k) = Get(obj[dst], k)
            /\ OthersUnchanged(dst)]_vars

C2_Witness ==
    /\ last.op = "copy_driver_state"
    /\ last.self # last.arg
    /\ Get(obj[last.self], "ang_rad") = Num(1571)
    /\ Get(obj[last.arg], "ang_rad") = Num(1571)
    /\ Get(obj[last.arg], "slewtime") = Num(1500)
    /\ Get(obj[last.self], "slewtime") = Num(0)
    /\ Get(obj[last.self], "targetid") # Get(obj[last.arg], "targetid")

(* C3: exp_time reads as the value last assigned to it when that value is  *)
(* not None (0 included), and as the sum of the current exp_times when it  *)
(* was never assigned or last assigned None; a read returns that value.    *)
C3_ExpTimeOverride ==
    /\ \A t \in Targets :
            exp_time(heap, obj[t]) =
                IF written[t] # None THEN written[t]
                ELSE Num(sum(ExpTimes(heap, obj[t])))
    /\ last.op = "get_exp_time" =>
            last.ret = IF written[last.self] # None THEN written[last.self]
                       ELSE Num(sum(ExpTimes(heap, obj[last.self])))

C3_Witness ==
    /\ last.op = "get_exp_time"
    /\ written[last.self] = Num(0)
    /\ last.ret = Num(0)
    /\ sum(ExpTimes(heap, obj[last.self])) = 30000

(* C4: from_json of the text to_json wrote for t, called on a Target()     *)
(* as constructed, makes every field of it, the exposure-time override     *)
(* included, equal to the field of t, and leaves t as it was.              *)
C4_JsonRoundTrip ==
    [][\A t \in Targets :
        (/\ last'.op = "from_json"
         /\ last'.self # t
         /\ last'.arg = to_json(heap, obj[t])
         /\ \E n \in {Target_default(heap)} :
                Fields(heap, obj[last'.self]) = Fields(n.heap, n.self))
        => /\ last'.ret = None
           /\ Fields(heap', obj'[last'.self]) = Fields(heap, obj[t])
           /\ exp_time(heap', obj'[last'.self]) = exp_time(heap, obj[t])
           /\ obj'[t] = obj[t]
           /\ ExpTimes(heap', obj'[t]) = ExpTimes(heap, obj[t])]_vars

C4_Witness ==
    /\ last.op = "from_json"
    /\ last.self = 2
    /\ last.ret = None
    /\ last.arg = to_json(heap, obj[1])
    /\ Get(obj[1], "_exp_time") = Num(40000)
    /\ Get(obj[2], "_exp_time") = Num(40000)
    /\ Get(obj[2], "targetid") = Num(7)
    /\ ExpTimes(heap, obj[2]) = <<30000>>

(* C5: from_json of a text lacking a mandatory key raises the KeyError     *)
(* naming the first key, in the order targetid, fieldid, filter, ra_rad,   *)
(* dec_rad, ang_rad, num_exp, exp_times, that the text lacks; of a text    *)
(* holding all eight it raises none.                                       *)
C5_Order ==
    << "targetid", "fieldid", "filter", "ra_rad", "dec_rad", "ang_rad",
       "num_exp", "exp_times" >>

C5_FirstMissingField ==
    last.op = "from_json" =>
        /\ \A i \in 1..Len(C5_Order) :
                (/\ C5_Order[i] \notin Keys(last.arg)
                 /\ \A j \in 1..(i - 1) : C5_Order[j] \in Keys(last.arg))
                => last.ret = KeyError(C5_Order[i])
        /\ (\A i \in 1..Len(C5_Order) : C5_Order[i] \in Keys(last.arg))
                => last.ret = None

C5_Witness ==
    /\ last.op = "from_json"
    /\ last.ret = KeyError("fieldid")
    /\ "dec_rad" \notin Keys(last.arg)
    /\ "exp_times" \notin Keys(last.arg)

(* C6: no Target's exp_times is the same list object as the caller's       *)
(* list, the constructor's default list, the topic's exposureTimes or the  *)
(* exp_times of another Target, so a change of one of them through any of  *)
(* its holders changes no other.                                           *)
C6_NoSharedList ==
    \A t \in Targets :
        LET r == Get(obj[t], "exp_times").ref
        IN  /\ r \notin {DefaultList, CallerList, topic.exposureTimes.ref}
            /\ \A u \in Targets \ {t} : Get(obj[u], "exp_times").ref # r

C6_Witness ==
    /\ last.op = "append"
    /\ last.arg = Num(CallerList)
    /\ Len(obj) = 2
    /\ ExpTimes(heap, obj[1]) = <<30000>>
    /\ ExpTimes(heap, obj[2]) = <<30000>>
    /\ heap[CallerList] = <<30000, 5000>>

(* C7: after from_json succeeds, each member of the text beyond the        *)
(* mandatory keys is a member of what to_json then writes, with the same   *)
(* value, whatever the member's name.                                      *)
C7_ExtraKeysPreserved ==
    (last.op = "from_json" /\ last.ret = None) =>
        \A i \in 1..Len(last.arg) :
            last.arg[i].key \notin {C5_Order[j] : j \in 1..Len(C5_Order)}
            => \E k \in 1..Len(to_json(heap, obj[last.self])) :
                    to_json(heap, obj[last.self])[k] = last.arg[i]

(* C8: from_topic returns a Target holding the topic's targetId, filter    *)
(* and numExposures, fieldid -1, the radians of the topic's ra, decl and   *)
(* skyAngle, the elements of its exposureTimes, no exposure-time override, *)
(* 0 in every condition and computed field and an empty note; the topic    *)
(* is as it was.                                                           *)
C8_Expected(tp, elems) ==
    [targetid |-> Num(tp.targetId), fieldid |-> Num(0 - 1),
     filter |-> Str(tp.filter), ra_rad |-> Num(Radians(tp.ra)),
     dec_rad |-> Num(Radians(tp.decl)), ang_rad |-> Num(Radians(tp.skyAngle)),
     num_exp |-> Num(tp.numExposures),
     exp_times |-> [type |-> "list", elems |-> elems],
     _exp_time |-> None, time |-> Num(0), airmass |-> Num(0),
     sky_brightness |-> Num(0), cloud |-> Num(0), seeing |-> Num(0),
     alt_rad |-> Num(0), az_rad |-> Num(0), rot_rad |-> Num(0),
     telalt_rad |-> Num(0), telaz_rad |-> Num(0), telrot_rad |-> Num(0),
     slewtime |-> Num(0), note |-> Str("")]

C8_FromTopic ==
    [][last'.op = "from_topic" =>
        /\ Fields(heap', obj'[last'.self])
                = C8_Expected(topic, heap[topic.exposureTimes.ref])
        /\ topic' = topic
        /\ heap'[topic.exposureTimes.ref] = heap[topic.exposureTimes.ref]
        /\ \A u \in Targets : obj'[u] = obj[u]]_vars

C8_Witness ==
    /\ last.op = "from_topic"
    /\ Get(obj[last.self], "fieldid") = Num(0 - 1)
    /\ Get(obj[last.self], "ra_rad") = Num(785)
    /\ Get(obj[last.self], "dec_rad") = Num(0 - 524)
    /\ ExpTimes(heap, obj[last.self]) = <<15000, 15000>>

(* C9: for each degree view q, a read returns the degrees of the stored    *)
(* q_rad and changes nothing; a write of x stores radians(x) in q_rad and  *)
(* changes no other field.                                                 *)
C9_DegreeViews ==
    [][/\ last'.op = "get_degrees" =>
            /\ last'.ret = Num(Degrees(
                    Get(obj[last'.self], last'.arg.str \o "_rad").num))
            /\ obj' = obj
            /\ heap' = heap
       /\ last'.op = "set_degrees" =>
            LET t == last'.self
                f == last'.arg.key \o "_rad"
            IN  /\ Get(obj'[t], f) = Num(Radians(last'.arg.val.num))
                /\ Keys(obj'[t]) = Keys(obj[t])
                /\ \A k \in Keys(obj[t]) \ {f} : Get(obj'[t], k) = Get(obj[t], k)
                /\ OthersUnchanged(t)]_vars

C9_Witness ==
    /\ last.op = "get_degrees"
    /\ last.arg = Str("telaz")
    /\ Get(obj[last.self], "telaz_rad") = Num(1570)
    /\ last.ret = Num(89954)
    /\ Get(obj[last.self], "telalt_rad") = Num(0)

(* C10: when from_json raises the missing-field error, the Target it was   *)
(* called on is as it was before the call.                                 *)
C10_FailedFromJsonChangesNothing ==
    [][(last'.op = "from_json" /\ last'.ret # None) =>
            /\ obj' = obj
            /\ heap' = heap]_vars

C10_Witness ==
    /\ last.op = "from_json"
    /\ last.ret = KeyError("exp_times")
    /\ last.self = 2
    /\ "proposalid" \in Keys(last.arg)
    /\ Get(last.arg, "targetid") = JNumber(7)
    /\ Get(obj[2], "targetid") = Num(0)
    /\ ~Has(obj[2], "proposalid")

====
